---------------------------- MODULE Spec2Model ----------------------------
(***************************************************************************)
(* Session tickets of ScrambleSuit (sessionticket.py): SessionTicket,      *)
(* ProtocolState and decryptTicket, as a state machine.                    *)
(*                                                                         *)
(* Strings are Python 2 byte strings: sequences of integers 0..255.        *)
(* The free names of the module (keyName, globalAESKey, globalHMACKey,     *)
(* log) are process-wide bindings supplied by the embedding program; the   *)
(* three keys are state, the logger has no effect on the result.           *)
(* AES and HMAC-SHA256 come from PyCrypto; they are modelled by a keyed    *)
(* 16-byte block permutation run in CBC mode and by a keyed 32-byte        *)
(* checksum, both computed byte by byte.                                   *)
(***************************************************************************)
EXTENDS Integers, Sequences, FiniteSets, TLC

(***************************************************************************)
(* Program constants.                                                      *)
(***************************************************************************)
NAME_LENGTH == 16

IV_LENGTH == 16

\* "ScrambleSuitTicket" in ASCII
IDENTIFIER ==
  <<83, 99, 114, 97, 109, 98, 108, 101, 83, 117, 105, 116, 84, 105, 99, 107, 101, 116>>

\* const.SESSION_TICKET_LENGTH
SESSION_TICKET_LENGTH == 112

\* const.SESSION_TICKET_LIFETIME (seconds); one week is assumed, no call
\* modelled here gets far enough to read it
SESSION_TICKET_LIFETIME == 604800

\* AES.block_size
AES_BLOCK_SIZE == 16

\* SHA256 digest size
HMAC_LENGTH == 32

\* length every key must have (assert in SessionTicket.__init__)
KEY_LENGTH == 16

\* self.pad = "\0\0\0\0"
PAD == <<0, 0, 0, 0>>

(***************************************************************************)
(* Bytes and byte strings.                                                 *)
(***************************************************************************)
RECURSIVE XorBits(_, _)
XorBits(a, b) ==
  IF a = 0 THEN b
  ELSE IF b = 0 THEN a
  ELSE (((a % 2) + (b % 2)) % 2) + 2 * XorBits(a \div 2, b \div 2)

\* the exclusive or of two bytes, tabulated
XorTable == [a \in 0..255 |-> [b \in 0..255 |-> XorBits(a, b)]]

Xor(a, b) == XorTable[a][b]

XorBlock(a, b) == [i \in 1..AES_BLOCK_SIZE |-> Xor(a[i], b[i])]

\* Python's s[lo:hi] for 0 <= lo <= hi <= len(s)
Slice(s, lo, hi) == SubSeq(s, lo + 1, hi)

(***************************************************************************)
(* AES-128 in CBC mode (Crypto.Cipher.AES), abstracted: a keyed            *)
(* permutation of 16-byte blocks (key addition, byte substitution, byte    *)
(* rotation), chained as CBC chains it.                                    *)
(***************************************************************************)
SBox(x) == (5 * x + 17) % 256

InvSBox(y) == (205 * (y + 256 - 17)) % 256

EncryptBlock(key, b) ==
  [i \in 1..AES_BLOCK_SIZE |->
     SBox(Xor(b[(i % AES_BLOCK_SIZE) + 1], key[(i % AES_BLOCK_SIZE) + 1]))]

DecryptBlock(key, c) ==
  [i \in 1..AES_BLOCK_SIZE |->
     Xor(InvSBox(c[((i + AES_BLOCK_SIZE - 2) % AES_BLOCK_SIZE) + 1]), key[i])]

RECURSIVE CBCEncrypt(_, _, _)
CBCEncrypt(key, prev, plain) ==
  IF plain = <<>> THEN <<>>
  ELSE LET c == EncryptBlock(key, XorBlock(SubSeq(plain, 1, AES_BLOCK_SIZE), prev))
       IN  c \o CBCEncrypt(key, c, SubSeq(plain, AES_BLOCK_SIZE + 1, Len(plain)))

RECURSIVE CBCDecrypt(_, _, _)
CBCDecrypt(key, prev, cipher) ==
  IF cipher = <<>> THEN <<>>
  ELSE LET c == SubSeq(cipher, 1, AES_BLOCK_SIZE)
       IN  XorBlock(DecryptBlock(key, c), prev)
             \o CBCDecrypt(key, c, SubSeq(cipher, AES_BLOCK_SIZE + 1, Len(cipher)))

\* AES.new(key, mode=AES.MODE_CBC, IV=iv).encrypt(plain)
AESEncrypt(key, iv, plain) == CBCEncrypt(key, iv, plain)

\* AES.new(key, mode=AES.MODE_CBC, IV=iv).decrypt(cipher)
AESDecrypt(key, iv, cipher) == CBCDecrypt(key, iv, cipher)

(***************************************************************************)
(* HMAC-SHA256 (Crypto.Hash.HMAC), abstracted: 32 keyed lanes, lane i a    *)
(* polynomial checksum of the message bytes at positions i, i+32, i+64.    *)
(* Changing one byte of the message or of the key changes the tag.         *)
(***************************************************************************)
RECURSIVE Lane(_, _, _)
Lane(msg, pos, acc) ==
  IF pos > Len(msg) THEN acc
  ELSE Lane(msg, pos + HMAC_LENGTH, (31 * acc + msg[pos] + 1) % 256)

\* HMAC.new(key, msg, digestmod=SHA256).digest()
HMAC(key, msg) ==
  [i \in 1..HMAC_LENGTH |->
     SBox((Lane(msg, i, key[((i - 1) % KEY_LENGTH) + 1]) + 7 * i + Len(msg)) % 256)]

(***************************************************************************)
(* Python values.  None and a byte string are told apart by a flag.        *)
(***************************************************************************)
None == [isNone |-> TRUE, str |-> <<>>]

Str(s) == [isNone |-> FALSE, str |-> s]

(***************************************************************************)
(* The clock.  time.time() is read as whole seconds, kept in two limbs     *)
(* (seconds = hi * 10^9 + lo) because the values of interest pass 2^31.    *)
(***************************************************************************)
Time(hi, lo) == [hi |-> hi, lo |-> lo]

NoTime == Time(0, 0)

RECURSIVE Decimal(_)
Decimal(n) ==
  IF n < 10 THEN <<48 + n>> ELSE Decimal(n \div 10) \o <<48 + (n % 10)>>

ZeroPadded9(n) == [i \in 1..9 |-> 48 + ((n \div (10 ^ (9 - i))) % 10)]

\* "%d" % t
FormatD(t) ==
  IF t.hi = 0 THEN Decimal(t.lo) ELSE Decimal(t.hi) \o ZeroPadded9(t.lo)

(***************************************************************************)
(* Inputs explored.                                                        *)
(***************************************************************************)
\* values returned by time.time() in issue(): the last 9-digit second, the
\* first and the last 10-digit second, the first 11-digit second
Times == {Time(0, 999999999), Time(1, 0), Time(9, 999999999), Time(10, 0)}

\* the values among them explored where tickets are also redeemed
IssueTimes == {Time(1, 0), Time(9, 999999999)}

\* values returned by time.time() in isValid(): for a ticket issued at
\* second 10^9, age SESSION_TICKET_LIFETIME and one second more
CheckTimes == {Time(1, SESSION_TICKET_LIFETIME), Time(1, SESSION_TICKET_LIFETIME + 1)}

\* values returned by time.time() where issuance alone is explored
FreshTimes == {Time(1, 0), Time(9, 999999999)}

M1 == [i \in 1..16 |-> 0]

M2 == [i \in 1..16 |-> 160 + i]

\* a master key of the wrong length
ShortKey == [i \in 1..15 |-> 0]

K1 == [i \in 1..16 |-> i]

\* K1 with its first byte changed
K2 == [i \in 1..16 |-> IF i = 1 THEN 129 ELSE i]

H1 == [i \in 1..16 |-> 64 + i]

\* H1 with its last byte changed
H2 == [i \in 1..16 |-> IF i = 16 THEN 0 ELSE 64 + i]

N1 == [i \in 1..16 |-> 96 + i]

\* N1 with its last byte changed
N2 == [i \in 1..16 |-> IF i = 16 THEN 33 ELSE 96 + i]

\* (masterKey, symmTicketKey, hmacTicketKey) passed to SessionTicket()
KeyArgs ==
  {<<M1, K1, H1>>, <<M2, K1, H1>>, <<M1, K2, H1>>, <<M1, K1, H2>>, <<ShortKey, K1, H1>>}

\* bounds of the model
MaxObjects == 1

MaxIssued == 1

MaxFreshObjects == 2

MaxFreshIssued == 2

MaxClockObjects == 1

MaxClockIssued == 2

(***************************************************************************)
(* mycrypto                                                                *)
(***************************************************************************)
\* mycrypto.weak_random(n): any of a few values, repetitions included
WeakRandom(n) == {N1, N2}

\* mycrypto.strong_random(n): the c-th draw; no two draws agree
StrongRandom(n, c) == [i \in 1..n |-> (37 * c + i) % 256]

(***************************************************************************)
(* State.                                                                  *)
(***************************************************************************)
VARIABLES
  keyName,        \* module global: the key name tickets are recognised by
  globalAESKey,   \* module global: the AES key tickets are decrypted with
  globalHMACKey,  \* module global: the HMAC key tickets are verified with
  objects,        \* the SessionTicket objects constructed so far
  randCalls,      \* number of draws made from strong_random
  issued,         \* what issue() has returned so far, in order
  ret             \* the last call: its arguments, its steps, its outcome

vars == <<keyName, globalAESKey, globalHMACKey, objects, randCalls, issued, ret>>

NoState == [identifier |-> <<>>, masterKey |-> <<>>, issueDate |-> None, pad |-> <<>>]

Return(op, outcome, input, steps, state, now, obj, plain) ==
  [op |-> op, outcome |-> outcome, input |-> input, steps |-> steps,
   state |-> state, now |-> now, obj |-> obj, plain |-> plain]

(***************************************************************************)
(* ProtocolState                                                           *)
(***************************************************************************)
\* ProtocolState.__init__(self, masterKey, issueDate)
ProtocolState(masterKey, issueDate) ==
  [identifier |-> IDENTIFIER, masterKey |-> masterKey, issueDate |-> None, pad |-> PAD]

\* __repr__ with the padding left out
ReprUnpadded(state) == state.issueDate.str \o state.identifier \o state.masterKey

\* ProtocolState.__repr__, the issue date being a string
Repr(state) == state.issueDate.str \o state.identifier \o state.masterKey \o state.pad

\* ProtocolState.isValid(self) at time now: the name issueDate of
\* `assert issueDate' is bound neither locally nor in the module, so the
\* call ends there, whatever the state and the clock
isValid(state, now) == "NameError"

(***************************************************************************)
(* decryptTicket                                                           *)
(***************************************************************************)
\* the key-name check left out
NameUnchecked(ticket) == TRUE

\* ticket[:16] == keyName
NameMatches(ticket) == Slice(ticket, 0, 16) = keyName

\* the HMAC check left out
HmacUnchecked(ticket) == TRUE

\* HMAC over ticket[:-32] equals ticket[-32:]
HmacMatches(ticket) ==
  HMAC(globalHMACKey, Slice(ticket, 0, Len(ticket) - 32))
    = Slice(ticket, Len(ticket) - 32, Len(ticket))

\* aes.decrypt(ticket[32:-32]) with IV ticket[16:32]
PlainTicket(ticket) ==
  AESDecrypt(globalAESKey, Slice(ticket, 16, 32), Slice(ticket, 32, Len(ticket) - 32))

IssueDateOf(plainTicket) == Slice(plainTicket, 0, 10)

IdentifierOf(plainTicket) == Slice(plainTicket, 10, 28)

\* the master key sliced one byte early
MasterKeyOfShifted(plainTicket) == Slice(plainTicket, 27, 43)

MasterKeyOf(plainTicket) == Slice(plainTicket, 28, 44)

\* the three `return None'
OnBadName == "None"

OnBadHmac == "None"

\* a bad identifier raised instead of returned
OnBadIdentifierRaised == "ValueError"

OnBadIdentifier == "None"

\* decryptTicket decrypting and reading the identifier before the HMAC check
decryptTicketEager(ticket) ==
  IF Len(ticket) # SESSION_TICKET_LENGTH
  THEN [outcome |-> "AssertionError", steps |-> <<"length">>, state |-> NoState]
  ELSE IF ~NameMatches(ticket)
  THEN [outcome |-> OnBadName, steps |-> <<"length", "name">>, state |-> NoState]
  ELSE LET plainTicket == PlainTicket(ticket)
       IN  IF IdentifierOf(plainTicket) # IDENTIFIER
           THEN [outcome |-> OnBadIdentifier,
                 steps |-> <<"length", "name", "decrypt", "identifier">>,
                 state |-> NoState]
           ELSE IF ~HmacMatches(ticket)
           THEN [outcome |-> OnBadHmac,
                 steps |-> <<"length", "name", "decrypt", "identifier", "hmac">>,
                 state |-> NoState]
           ELSE [outcome |-> "ProtocolState",
                 steps |-> <<"length", "name", "decrypt", "identifier", "hmac">>,
                 state |-> ProtocolState(MasterKeyOf(plainTicket),
                                         Str(IssueDateOf(plainTicket)))]

\* decryptTicket(ticket): the outcome, the steps taken in order, the state returned
decryptTicket(ticket) ==
  IF Len(ticket) # SESSION_TICKET_LENGTH
  THEN [outcome |-> "AssertionError", steps |-> <<"length">>, state |-> NoState]
  ELSE IF ~NameMatches(ticket)
  THEN [outcome |-> OnBadName, steps |-> <<"length", "name">>, state |-> NoState]
  ELSE IF ~HmacMatches(ticket)
  THEN [outcome |-> OnBadHmac, steps |-> <<"length", "name", "hmac">>, state |-> NoState]
  ELSE LET plainTicket == PlainTicket(ticket)
       IN  IF IdentifierOf(plainTicket) # IDENTIFIER
           THEN [outcome |-> OnBadIdentifier,
                 steps |-> <<"length", "name", "hmac", "decrypt", "identifier">>,
                 state |-> NoState]
           ELSE [outcome |-> "ProtocolState",
                 steps |-> <<"length", "name", "hmac", "decrypt", "identifier">>,
                 state |-> ProtocolState(MasterKeyOf(plainTicket),
                                         Str(IssueDateOf(plainTicket)))]

(***************************************************************************)
(* SessionTicket                                                           *)
(***************************************************************************)
\* the key name written where the IV belongs
TicketNameTwice(name, iv, cryptedState, hmac) == name \o name \o cryptedState \o hmac

\* keyName + IV + cryptedState + hmac
Ticket(name, iv, cryptedState, hmac) == name \o iv \o cryptedState \o hmac

\* SessionTicket.__init__(self, masterKey, symmTicketKey, hmacTicketKey)
SessionTicketInit(masterKey, symmTicketKey, hmacTicketKey) ==
  IF Len(masterKey) = KEY_LENGTH /\ Len(symmTicketKey) = KEY_LENGTH
       /\ Len(hmacTicketKey) = KEY_LENGTH
  THEN \E name \in WeakRandom(NAME_LENGTH) :
         /\ objects' = Append(objects,
              [keyName |-> name,
               IV |-> StrongRandom(IV_LENGTH, randCalls),
               state |-> ProtocolState(masterKey, None),
               symmTicketKey |-> symmTicketKey,
               hmacTicketKey |-> hmacTicketKey])
         /\ randCalls' = randCalls + 1
         /\ ret' = Return("new", "SessionTicket", <<>>, <<>>, NoState, NoTime,
                          Len(objects) + 1, <<>>)
         /\ UNCHANGED <<keyName, globalAESKey, globalHMACKey, issued>>
  ELSE /\ ret' = Return("new", "AssertionError", <<>>, <<>>, NoState, NoTime, 0, <<>>)
       /\ UNCHANGED <<keyName, globalAESKey, globalHMACKey, objects, randCalls, issued>>

\* SessionTicket.issue(self) on objects[i], time.time() returning t
issue(i, t) ==
  LET self  == objects[i]
      dated == [self.state EXCEPT !.issueDate = Str(FormatD(t))]
      state == Repr(dated)
  IN  /\ objects' = [objects EXCEPT ![i].state = dated]
      /\ IF Len(state) % AES_BLOCK_SIZE # 0
         THEN /\ ret' = Return("issue", "AssertionError", <<>>, <<>>, dated, t, i, state)
              /\ UNCHANGED issued
         ELSE LET cryptedState == AESEncrypt(self.symmTicketKey, self.IV, state)
                  hmac == HMAC(self.hmacTicketKey, self.keyName \o self.IV \o cryptedState)
                  ticket == Ticket(self.keyName, self.IV, cryptedState, hmac)
              IN  /\ ret' = Return("issue", "ticket", ticket, <<>>, dated, t, i, state)
                  /\ issued' = Append(issued,
                       [obj |-> i, keyName |-> self.keyName, ticket |-> ticket,
                        issueDate |-> dated.issueDate.str])
      /\ UNCHANGED <<keyName, globalAESKey, globalHMACKey, randCalls>>

(***************************************************************************)
(* Calls made by the embedding program.                                    *)
(***************************************************************************)
Flip(s, p) == [s EXCEPT ![p] = Xor(@, 1)]

\* a byte of the key name, of the IV, of the ciphertext (first and last) and
\* of the tag
TamperPositions == {16, 17, 33, 80, 112}

\* what a peer can present, having received ticket
Presented(ticket) ==
  {ticket} \cup {Flip(ticket, p) : p \in TamperPositions}
    \cup {n \o Slice(ticket, 16, Len(ticket)) : n \in WeakRandom(NAME_LENGTH)}
    \cup {Slice(ticket, 0, Len(ticket) - 1), ticket \o <<0>>}

Redeem(ticket) ==
  LET r == decryptTicket(ticket)
  IN  /\ ret' = Return("decryptTicket", r.outcome, ticket, r.steps, r.state, NoTime, 0, <<>>)
      /\ UNCHANGED <<keyName, globalAESKey, globalHMACKey, objects, randCalls, issued>>

CheckValid(state, t) ==
  /\ ret' = Return("isValid", isValid(state, t), <<>>, <<>>, state, t, 0, <<>>)
  /\ UNCHANGED <<keyName, globalAESKey, globalHMACKey, objects, randCalls, issued>>

Init ==
  /\ keyName = N1
  /\ globalAESKey = K1
  /\ globalHMACKey = H1
  /\ objects = <<>>
  /\ randCalls = 0
  /\ issued = <<>>
  /\ ret = Return("none", "None", <<>>, <<>>, NoState, NoTime, 0, <<>>)

New ==
  /\ Len(objects) < MaxObjects
  /\ \E a \in KeyArgs : SessionTicketInit(a[1], a[2], a[3])

Issue ==
  /\ Len(issued) < MaxIssued
  /\ \E i \in 1..Len(objects), t \in IssueTimes : issue(i, t)

DecryptTicket ==
  \/ \E k \in 1..Len(issued) : \E ticket \in Presented(issued[k].ticket) : Redeem(ticket)
  \/ Redeem(<<>>)

IsValid ==
  \E t \in CheckTimes :
    \/ \E i \in 1..Len(objects) : CheckValid(objects[i].state, t)
    \/ ret.outcome = "ProtocolState" /\ CheckValid(ret.state, t)

Next == New \/ Issue \/ DecryptTicket \/ IsValid

Spec == Init /\ [][Next]_vars


(***************************************************************************)
(* Issuance alone, with more objects and more tickets.                     *)
(***************************************************************************)
NewFresh ==
  /\ Len(objects) < MaxFreshObjects
  /\ \E a \in {<<M2, K1, H1>>, <<M1, K2, H1>>} : SessionTicketInit(a[1], a[2], a[3])

IssueFresh ==
  /\ Len(issued) < MaxFreshIssued
  /\ \E i \in 1..Len(objects), t \in FreshTimes : issue(i, t)

NextIssue == NewFresh \/ IssueFresh

SpecIssue == Init /\ [][NextIssue]_vars

(***************************************************************************)
(* Issuance alone, at every clock value.                                   *)
(***************************************************************************)
NewClock ==
  /\ Len(objects) < MaxClockObjects
  /\ \E a \in KeyArgs : SessionTicketInit(a[1], a[2], a[3])

IssueClock ==
  /\ Len(issued) < MaxClockIssued
  /\ \E i \in 1..Len(objects), t \in Times : issue(i, t)

NextClock == NewClock \/ IssueClock

SpecClock == Init /\ [][NextClock]_vars

(***************************************************************************)
(* Vocabulary of the properties.                                           *)
(***************************************************************************)
\* issued[k] was issued under the key triple redemption uses
UnderRedeemKeys(k) ==
  /\ objects[issued[k].obj].keyName = keyName
  /\ objects[issued[k].obj].symmTicketKey = globalAESKey
  /\ objects[issued[k].obj].hmacTicketKey = globalHMACKey

\* byte ranges [lo, hi) of the key name, the IV, the ciphertext and the tag
NameRegion == <<0, 16>>

IVRegion == <<16, 32>>

CipherRegion == <<32, 80>>

TagRegion == <<80, 112>>

Regions == {NameRegion, IVRegion, CipherRegion, TagRegion}

DiffersIn(a, b, r) == Slice(a, r[1], r[2]) # Slice(b, r[1], r[2])

\* a and b are 112 bytes long and differ in exactly the region r
TamperedIn(a, b, r) ==
  /\ Len(a) = 112
  /\ Len(b) = 112
  /\ \A q \in Regions : DiffersIn(a, b, q) <=> q = r

Redeemed == ret.op = "decryptTicket"

TenDigits(t) == t.hi \in 1..9

RECURSIVE ValueOf(_)
ValueOf(digits) ==
  IF digits = <<>> THEN 0
  ELSE 10 * ValueOf(SubSeq(digits, 1, Len(digits) - 1)) + (digits[Len(digits)] - 48)

\* the time a decimal string denotes
ParseTime(str) ==
  IF Len(str) <= 9 THEN Time(0, ValueOf(str))
  ELSE Time(ValueOf(SubSeq(str, 1, Len(str) - 9)),
            ValueOf(SubSeq(str, Len(str) - 8, Len(str))))

\* 0 <= now - date <= lifetime
WithinLifetime(now, date, lifetime) ==
  LET dh == now.hi - date.hi
  IN  /\ dh \in {-1, 0, 1}
      /\ 0 <= dh * (10 ^ 9) + (now.lo - date.lo)
      /\ dh * (10 ^ 9) + (now.lo - date.lo) <= lifetime

(***************************************************************************)
(* C1: redeeming, under the key triple it was issued under, a ticket that  *)
(* issue() returned yields a ProtocolState whose masterKey is the master   *)
(* key the SessionTicket was constructed with.                             *)
(***************************************************************************)
C1_MasterKeyRoundTrip ==
  Redeemed =>
    \A k \in 1..Len(issued) :
      (ret.input = issued[k].ticket /\ UnderRedeemKeys(k)) =>
        /\ ret.outcome = "ProtocolState"
        /\ ret.state.masterKey = objects[issued[k].obj].state.masterKey

C1_Witness ==
  /\ Redeemed
  /\ \E k \in 1..Len(issued) : ret.input = issued[k].ticket /\ UnderRedeemKeys(k)
  /\ ret.outcome = "ProtocolState"
  /\ ret.state.masterKey = M2

(***************************************************************************)
(* C2: the ProtocolState returned for a ticket that issue() returned has   *)
(* the issue date recorded at issuance.                                    *)
(***************************************************************************)
C2_IssueDateRoundTrip ==
  Redeemed =>
    \A k \in 1..Len(issued) :
      (ret.input = issued[k].ticket /\ UnderRedeemKeys(k)) =>
        /\ ret.outcome = "ProtocolState"
        /\ ret.state.issueDate = Str(issued[k].issueDate)

(***************************************************************************)
(* C3: a 112-byte input that differs from an issued ticket in the key      *)
(* name, in the IV, in the ciphertext or in the tag is rejected under the  *)
(* key triple of the ticket; when it is the IV or the ciphertext that      *)
(* differs, the HMAC check is the one that rejects, nothing is decrypted   *)
(* and no state is returned.                                               *)
(***************************************************************************)
C3_TamperRejected ==
  Redeemed =>
    \A k \in 1..Len(issued) : \A r \in Regions :
      (UnderRedeemKeys(k) /\ TamperedIn(ret.input, issued[k].ticket, r)) =>
        /\ ret.outcome = "None"
        /\ ret.state = NoState
        /\ r \in {IVRegion, CipherRegion} => ret.steps = <<"length", "name", "hmac">>

C3_Witness ==
  /\ Redeemed
  /\ \E k \in 1..Len(issued) :
       UnderRedeemKeys(k) /\ TamperedIn(ret.input, issued[k].ticket, CipherRegion)
  /\ ret.outcome = "None"

(***************************************************************************)
(* C4: a ticket issued under a key triple other than the one redemption    *)
(* uses is rejected, whichever of key name, symmetric key and HMAC key     *)
(* differs.                                                                *)
(***************************************************************************)
C4_WrongKeyRejected ==
  Redeemed =>
    \A k \in 1..Len(issued) :
      (ret.input = issued[k].ticket /\ ~UnderRedeemKeys(k)) => ret.outcome = "None"

C4_Witness ==
  /\ Redeemed
  /\ ret.outcome = "None"
  /\ \E k \in 1..Len(issued) :
       /\ ret.input = issued[k].ticket
       /\ objects[issued[k].obj].keyName = keyName
       /\ objects[issued[k].obj].symmTicketKey = globalAESKey
       /\ objects[issued[k].obj].hmacTicketKey # globalHMACKey

(***************************************************************************)
(* C5: an input whose length is not 112 bytes is rejected with None.       *)
(***************************************************************************)
C5_WrongLengthReturnsNone ==
  (Redeemed /\ Len(ret.input) # 112) => ret.outcome = "None"

(***************************************************************************)
(* C6: on a state with an issue date, isValid returns a boolean, True      *)
(* exactly when 0 <= now - issueDate <= SESSION_TICKET_LIFETIME.           *)
(***************************************************************************)
C6_ExpiryPolicy ==
  (ret.op = "isValid" /\ ~ret.state.issueDate.isNone) =>
    /\ ret.outcome \in {"True", "False"}
    /\ ret.outcome = "True" <=>
         WithinLifetime(ret.now, ParseTime(ret.state.issueDate.str),
                        SESSION_TICKET_LIFETIME)

C8_UniformRejection ==
  (Redeemed /\ Len(ret.input) = 112 /\ ret.outcome # "ProtocolState") =>
    /\ ret.outcome = "None"
    /\ ret.state = NoState
    /\ ret.steps[Len(ret.steps)] \in {"name", "hmac", "identifier"}

C8_Witness ==
  /\ Redeemed
  /\ Len(ret.input) = 112
  /\ ret.outcome = "None"
  /\ ret.steps[Len(ret.steps)] = "identifier"

(***************************************************************************)
(* C9, as claimed: no two tickets returned by issue() carry the same IV    *)
(* under the same symmTicketKey.                                           *)
(***************************************************************************)
C9_NoIVReuse ==
  \A j, k \in 1..Len(issued) :
    (j < k /\ objects[issued[j].obj].symmTicketKey = objects[issued[k].obj].symmTicketKey)
      => Slice(issued[j].ticket, 16, 32) # Slice(issued[k].ticket, 16, 32)

(***************************************************************************)
(* C9, amended: the IV and the key name are drawn when a SessionTicket is  *)
(* constructed, not when issue() is called: every ticket an object returns *)
(* carries the IV and the key name of that object, so two tickets returned *)
(* by the same object carry the same IV and the same key name.             *)
(***************************************************************************)
C9_IVPerObject ==
  \A j, k \in 1..Len(issued) :
    /\ Slice(issued[j].ticket, 16, 32) = objects[issued[j].obj].IV
    /\ Slice(issued[j].ticket, 0, 16) = objects[issued[j].obj].keyName
    /\ issued[j].obj = issued[k].obj =>
         /\ Slice(issued[j].ticket, 16, 32) = Slice(issued[k].ticket, 16, 32)
         /\ Slice(issued[j].ticket, 0, 16) = Slice(issued[k].ticket, 0, 16)
         /\ issued[j].keyName = issued[k].keyName

C9_Witness ==
  \E j, k \in 1..Len(issued) :
    /\ j < k
    /\ issued[j].obj = issued[k].obj
    /\ issued[j].ticket # issued[k].ticket
    /\ Slice(issued[j].ticket, 16, 32) = Slice(issued[k].ticket, 16, 32)

(***************************************************************************)
(* C10: decryptTicket checks the key name, then the HMAC over bytes        *)
(* [0..80), before it decrypts; it returns a ProtocolState only if both    *)
(* checks passed; when the HMAC check fails nothing is decrypted, the      *)
(* identifier is not read and no state is returned.                        *)
(***************************************************************************)
C10_AuthenticateBeforeDecrypt ==
  Redeemed =>
    LET nameOk == Slice(ret.input, 0, 16) = keyName
        hmacOk == HMAC(globalHMACKey, Slice(ret.input, 0, 80)) = Slice(ret.input, 80, 112)
        At(step) == {i \in 1..Len(ret.steps) : ret.steps[i] = step}
    IN  /\ \A d \in At("decrypt") \cup At("identifier") :
             \E h \in At("hmac") : h < d /\ \E n \in At("name") : n < h
        /\ ret.outcome = "ProtocolState" => Len(ret.input) = 112 /\ nameOk /\ hmacOk
        /\ (Len(ret.input) = 112 /\ ~hmacOk) =>
             /\ At("decrypt") = {}
             /\ At("identifier") = {}
             /\ ret.outcome = "None"
             /\ ret.state = NoState

C10_Witness ==
  /\ Redeemed
  /\ Len(ret.input) = 112
  /\ Slice(ret.input, 0, 16) = keyName
  /\ HMAC(globalHMACKey, Slice(ret.input, 0, 80)) # Slice(ret.input, 80, 112)
  /\ ret.steps = <<"length", "name", "hmac">>

============================================================================
